---- MODULE Spec2Model ----
(***************************************************************************)
(* A model of wrappers.c of 123elf: the translation layer between the     *)
(* legacy UNIX system-call ABI of the 1-2-3 binary and the Linux host.    *)
(*                                                                         *)
(* Flag words are modelled as the set of the flag macros set in them, so  *)
(* (x & M) == M is M \subseteq x, x |= M is x \cup M and x &= ~M is x \ M.*)
(* Host system calls are the environment: each call either succeeds or    *)
(* fails with an error code that it leaves in the host errno.             *)
(***************************************************************************)
EXTENDS Integers, FiniteSets, Sequences, TLC

VARIABLES
    host,         \* the live configuration of every host terminal
    original,     \* static struct termios original
    rawmode,      \* static bool rawmode of __unix_ioctl
    restore,      \* static struct termios restore of __unix_ioctl
    errno,        \* the host errno
    __unix_errno, \* the Lotus view of errno
    pc,           \* "running", or "exited" once err()/errx() ended the process
    call          \* the last call made by the legacy binary, with its results

vars == <<host, original, rawmode, restore, errno, __unix_errno, pc, call>>

---------------------------------------------------------------------------
(* Bounds of the model *)

\* the legacy binary asks for (VMIN, VTIME) = (1, 0), a blocking read, or for
\* (0, t), a read that times out after t in 1..MaxCC tenths of a second
MaxCC == 1
\* a failing host call leaves one of the codes 1..MaxErr in errno
MaxErr == 1

CCPairs == {<<1, 0>>} \cup {<<0, t>> : t \in 1..MaxCC}
ErrCodes == 1..MaxErr

---------------------------------------------------------------------------
(* The host side: file descriptors, terminals, struct termios *)

STDIN_FILENO == 0

\* File descriptors the legacy binary passes: 0 is open on one terminal, 1 on
\* another, 2 on a file that is no terminal.
Fds == {0, 1, 2}
Ttys == {"ttyA", "ttyB"}
TtyOf(fd) == IF fd = STDIN_FILENO THEN "ttyA" ELSE "ttyB"
isatty(fd) == fd \in {0, 1}

\* struct termios tio = {0}
ZeroTermios ==
    [c_iflag |-> {}, c_oflag |-> {}, c_cflag |-> {}, c_lflag |-> {},
     VMIN |-> 0, VTIME |-> 0]

\* Both terminals as the process finds them: the usual line discipline.
InitHost ==
    [t \in Ttys |->
        [c_iflag |-> {"ICRNL", "IXON", "BRKINT"},
         c_oflag |-> {"OPOST", "ONLCR"},
         c_cflag |-> {"CS7", "PARENB", "CREAD"},
         c_lflag |-> {"ISIG", "ICANON", "ECHO", "IEXTEN"},
         VMIN |-> 1, VTIME |-> 0]]

CSIZE == {"CS6", "CS7"}
CS8 == {"CS6", "CS7"}

\* cfmakeraw(3)
cfmakeraw(t) ==
    [c_iflag |-> t.c_iflag \ {"IGNBRK", "BRKINT", "PARMRK", "ISTRIP",
                              "INLCR", "IGNCR", "ICRNL", "IXON"},
     c_oflag |-> t.c_oflag \ {"OPOST"},
     c_lflag |-> t.c_lflag \ {"ECHO", "ECHONL", "ICANON", "ISIG", "IEXTEN"},
     c_cflag |-> (t.c_cflag \ (CSIZE \cup {"PARENB"})) \cup CS8,
     VMIN |-> 1, VTIME |-> 0]

---------------------------------------------------------------------------
(* The legacy side: struct unixtermios and the ioctl requests *)

UNIX_TABDLY == {"UNIX_TABDLY"}
UNIX_ICRNL == {"UNIX_ICRNL"}

\* The struct unixtermios values the legacy binary passes: any combination of
\* the two flags the wrapper looks at, with the timeouts it asks for.
UnixTermios ==
    {[c_iflag |-> i, c_oflag |-> o, UNIX_VMIN |-> cc[1], UNIX_VTIME |-> cc[2]] :
        i \in SUBSET UNIX_ICRNL, o \in SUBSET UNIX_TABDLY, cc \in CCPairs}

TCGETS == 21505
TCSETS == 21506
TCSETSW == 21507
REQ_7602 == 30210
REQ_7603 == 30211
REQ_4B01 == 19201

\* The requests the legacy binary passes; 21508 is one the switch has no case for.
Requests == {TCGETS, TCSETS, TCSETSW, 21508, REQ_7602, REQ_7603, REQ_4B01}

termios_wants_rawmode(tio) ==
    IF ~(UNIX_TABDLY \subseteq tio.c_oflag) THEN FALSE
    ELSE IF ~(UNIX_ICRNL \subseteq tio.c_iflag) THEN FALSE
    ELSE TRUE

\* termios_set_flags without its second line
termios_set_flags_OneFlag(tio) == [tio EXCEPT !.c_oflag = @ \cup UNIX_TABDLY]

termios_set_flags(tio) ==
    [tio EXCEPT !.c_oflag = @ \cup UNIX_TABDLY,
                !.c_iflag = @ \cup UNIX_ICRNL]

\* memset(argp, 0, sizeof *argp)
ZeroUnixTermios ==
    [c_iflag |-> {}, c_oflag |-> {}, UNIX_VMIN |-> 0, UNIX_VTIME |-> 0]

---------------------------------------------------------------------------
(* Process start and end *)

\* init_terminal_settings, then the statics as the loader leaves them. The
\* host errno is whatever the start-up code of the C library left in it.
Init ==
    /\ host = InitHost
    /\ original = InitHost[TtyOf(STDIN_FILENO)]
    /\ rawmode = FALSE
    /\ restore = ZeroTermios
    /\ errno \in {0} \cup ErrCodes
    /\ __unix_errno = 0
    /\ pc = "running"
    /\ call = [fn |-> "none", ret |-> 0, hostfail |-> FALSE]

\* fini_terminal_settings: the terminals after the destructor ran on h
fini_terminal_settings(h, ok) ==
    IF ok THEN [h EXCEPT ![TtyOf(STDIN_FILENO)] = original] ELSE h

\* err(EXIT_FAILURE, ...) and errx: the process ends, its destructor runs
Exit(h) ==
    /\ pc' = "exited"
    /\ \E ok \in BOOLEAN : host' = fini_terminal_settings(h, ok)

---------------------------------------------------------------------------
(* __unix_ioctl *)

\* CookedTio without the memcpy from restore
CookedTio_NoRestore(raw, rst, tio) == tio

\* lines 110-113: the attributes a cooked request starts from
CookedTio(raw, rst, tio) == IF raw THEN rst ELSE tio

\* RawRestore without the test of rawmode
RawRestore_Always(raw, rst, tio) == tio

\* lines 119-122: the snapshot after a raw request
RawRestore(raw, rst, tio) == IF raw = FALSE THEN tio ELSE rst

\* lines 119-129: the attributes a raw request starts from
RawTio(raw, tio) ==
    IF raw = FALSE
    THEN [cfmakeraw(tio) EXCEPT !.c_iflag = @ \cup {"BRKINT", "IGNBRK"},
                                !.c_lflag = @ \cup {"ISIG"}]
    ELSE tio

\* lines 136-137: translate timeouts
SetTimeouts(tio, argp) ==
    [tio EXCEPT !.VTIME = argp.UNIX_VTIME, !.VMIN = argp.UNIX_VMIN]

\* lines 108-133: the static rawmode after a set request; the branch taken
\* when termios_wants_rawmode returns true clears it, the other sets it
NewRawmode(wants) == IF wants THEN FALSE ELSE TRUE

\* lines 82-84
ioctl_null ==
    /\ call' = [fn |-> "ioctl", path |-> "null", ret |-> -1, diag |-> "none",
                hostfail |-> FALSE, preraw |-> rawmode, prehost |-> host]
    /\ UNCHANGED <<host, original, rawmode, restore, errno, __unix_errno, pc>>

\* tcgetattr(fd, &tio) != 0, lines 103-105 and 147-149
ioctl_tcgetattr_fails(fd, path) ==
    /\ \E e \in ErrCodes : errno' = e
    /\ call' = [fn |-> "ioctl", path |-> path, fd |-> fd, ret |-> -1,
                diag |-> "fatal", hostfail |-> TRUE, preraw |-> rawmode,
                prehost |-> host]
    /\ Exit(host)
    /\ UNCHANGED <<original, rawmode, restore, __unix_errno>>

\* case TCSETSW / case TCSETS, where tcgetattr and tcsetattr succeed
ioctl_set(fd, argp) ==
    /\ isatty(fd)
    /\ LET tty == TtyOf(fd)
           tio == host[tty]
           wants == termios_wants_rawmode(argp)
           tio1 == IF wants THEN CookedTio(rawmode, restore, tio)
                   ELSE RawTio(rawmode, tio)
           rst == IF wants THEN restore ELSE RawRestore(rawmode, restore, tio)
           tio2 == SetTimeouts(tio1, argp)
       IN
       /\ rawmode' = NewRawmode(wants)
       /\ restore' = rst
       /\ host' = [host EXCEPT ![tty] = tio2]
       /\ call' = [fn |-> "ioctl", path |-> "set", fd |-> fd, arg |-> argp,
                   wants |-> wants, preraw |-> rawmode, pre |-> tio,
                   ret |-> 0, diag |-> "none", hostfail |-> FALSE]
    /\ UNCHANGED <<original, errno, __unix_errno, pc>>

\* case TCSETSW / case TCSETS, where tcgetattr succeeds and tcsetattr fails:
\* the statics are written (lines 107-133), the terminal is not, err() ends
\* the process (lines 140-142)
ioctl_tcsetattr_fails(fd, argp) ==
    /\ isatty(fd)
    /\ LET tio == host[TtyOf(fd)]
           wants == termios_wants_rawmode(argp)
       IN
       /\ rawmode' = NewRawmode(wants)
       /\ restore' = IF wants THEN restore ELSE RawRestore(rawmode, restore, tio)
    /\ \E e \in ErrCodes : errno' = e
    /\ call' = [fn |-> "ioctl", path |-> "set", fd |-> fd, ret |-> -1,
                diag |-> "fatal", hostfail |-> TRUE,
                preraw |-> rawmode, prehost |-> host]
    /\ Exit(host)
    /\ UNCHANGED <<original, __unix_errno>>

\* case TCGETS, where tcgetattr succeeds
ioctl_get(fd) ==
    /\ isatty(fd)
    /\ LET tio == host[TtyOf(fd)]
           zeroed == ZeroUnixTermios
           out == termios_set_flags(
                     [zeroed EXCEPT !.UNIX_VTIME = tio.VTIME,
                                    !.UNIX_VMIN = tio.VMIN])
       IN call' = [fn |-> "ioctl", path |-> "get", fd |-> fd, ret |-> 0,
                   diag |-> "none", hostfail |-> FALSE, out |-> out,
                   preraw |-> rawmode, prerestore |-> restore, prehost |-> host]
    /\ UNCHANGED <<host, original, rawmode, restore, errno, __unix_errno, pc>>

\* IsQuietRequest without case 0x4B01
IsQuietRequest_Two(request) == request \in {REQ_7602, REQ_7603}

\* lines 161-164: the requests that break out of the switch without a warning
IsQuietRequest(request) == request \in {REQ_7602, REQ_7603, REQ_4B01}

\* case 0x7602, 0x7603, 0x4B01 and default, then lines 168-169
ioctl_other(request) ==
    /\ call' = [fn |-> "ioctl", path |-> "other", request |-> request, ret |-> -1,
                diag |-> IF IsQuietRequest(request) THEN "none" ELSE "warn",
                hostfail |-> FALSE, preerrno |-> __unix_errno,
                preraw |-> rawmode, prerestore |-> restore, prehost |-> host]
    /\ __unix_errno' = errno
    /\ UNCHANGED <<host, original, rawmode, restore, errno, pc>>

\* The requests whose timeouts are (1, 0): a failing tcsetattr installs none.
UnixTermiosBlocking == {a \in UnixTermios : a.UNIX_VMIN = 1}

\* The legacy binary calls ioctl(fd, request, argp): the NULL check, then the
\* switch on request. The wrapper reads fd only in the three terminal
\* requests and what argp holds only in the two set requests; TCSETSW differs
\* from TCSETS in the action handed to tcsetattr alone.
__unix_ioctl ==
    /\ pc = "running"
    /\ \/ ioctl_null
       \/ \E fd \in Fds : ioctl_tcgetattr_fails(fd, "set")
       \/ \E fd \in Fds, argp \in UnixTermios : ioctl_set(fd, argp)
       \/ \E fd \in Fds, argp \in UnixTermiosBlocking :
             ioctl_tcsetattr_fails(fd, argp)
       \/ \E fd \in Fds : ioctl_tcgetattr_fails(fd, "get")
       \/ \E fd \in Fds : ioctl_get(fd)
       \/ \E request \in Requests \ {TCGETS, TCSETS, TCSETSW} :
             ioctl_other(request)

---------------------------------------------------------------------------
(* Integers as flag words, where the source tests single bits of numbers *)

\* x & b != 0 for a power of two b
HasBit(x, b) == (x \div b) % 2 = 1

O_RDONLY == 0
O_WRONLY == 1
O_RDWR == 2
O_CREAT == 64
O_TRUNC == 512
O_APPEND == 1024
O_NONBLOCK == 2048

F_GETFL == 3
F_SETFL == 4
F_GETLK == 5
F_SETLK == 6
F_SETLKW == 7

F_RDLCK == 0
F_WRLCK == 1
F_UNLCK == 2

---------------------------------------------------------------------------
(* __unix_fcntl *)

\* static int unix_cmd_table[32]
CmdTableSize == 32

unix_cmd_table(cmd) ==
    CASE cmd = 3 -> F_GETFL
      [] cmd = 4 -> F_SETFL
      [] cmd = 5 -> F_GETLK
      [] cmd = 6 -> F_SETLK
      [] cmd = 7 -> F_SETLKW
      [] OTHER -> 0

\* line 198: the values cmd = unix_cmd_table[cmd] can take. An index outside
\* the table reads whatever lies next to it.
TranslatedCmd(cmd) ==
    IF cmd \in 0..(CmdTableSize - 1) THEN {unix_cmd_table(cmd)}
    ELSE 0..F_SETLKW

\* static int unix_lck_table[]
unix_lck_table(type) ==
    CASE type = 1 -> F_RDLCK
      [] type = 2 -> F_WRLCK
      [] type = 3 -> F_UNLCK
      [] OTHER -> 0

\* The commands the legacy binary passes: the five of the table, two that the
\* table leaves zero and one beyond its end.
LegacyCmds == {0, 3, 4, 5, 6, 7, 8, CmdTableSize}

\* What the host reports for F_GETFL; 32768 is O_LARGEFILE.
HostGetFlags ==
    {O_RDONLY, O_WRONLY + O_APPEND, O_RDWR + O_NONBLOCK, O_RDWR + 32768}

\* The legacy flag words passed with the set-flags command.
LegacySetFlags == {0, 4, 8, 12}

\* The lock requests passed with the set-lock command.
LegacyLocks ==
    {[l_type |-> t, l_whence |-> 0, l_start |-> 16, l_len |-> 4,
      l_sysid |-> 1, l_pid |-> 7] : t \in 1..3}

\* lines 212-221
GetflUnixFlags(linuxflags) ==
    (IF HasBit(linuxflags, O_WRONLY) THEN 1 ELSE 0)
  + (IF HasBit(linuxflags, O_RDWR) THEN 2 ELSE 0)
  + (IF HasBit(linuxflags, O_NONBLOCK) THEN 4 ELSE 0)
  + (IF HasBit(linuxflags, O_APPEND) THEN 8 ELSE 0)
  + (IF HasBit(linuxflags, O_CREAT) THEN 256 ELSE 0)

\* lines 226-233: int unixflags = cmd; the flag word the branch computes
SetflUnixFlags(cmd, arg) == cmd

SetflLinuxFlags(unixflags) ==
    LET l1 == IF HasBit(unixflags, 4) THEN O_NONBLOCK ELSE 0
    IN  IF HasBit(l1, 8) THEN l1 + O_APPEND ELSE l1

\* line 235: fcntl(fd, cmd, &linuxflags) hands the host the address of the
\* local, not its value: the bits the host reads are those of an address.
SetflHostArg(linuxflags) == {0, O_APPEND, O_NONBLOCK, O_APPEND + O_NONBLOCK}

fcntl_getfl(cmd, hostcmd) ==
    LET base == [fn |-> "fcntl", path |-> "getfl", cmd |-> cmd,
                 hostcmd |-> hostcmd, diag |-> "none"]
    IN
    \/ \E e \in ErrCodes :
          /\ errno' = e
          /\ __unix_errno' = e
          /\ call' = base @@ [ret |-> -1, hostfail |-> TRUE, herr |-> e]
    \/ \E linuxflags \in HostGetFlags :
          /\ __unix_errno' = errno
          /\ call' = base @@ [ret |-> GetflUnixFlags(linuxflags),
                              hostfail |-> FALSE, linuxflags |-> linuxflags]
          /\ UNCHANGED errno

fcntl_setfl(cmd, hostcmd, arg) ==
    LET unixflags == SetflUnixFlags(hostcmd, arg)
        linuxflags == SetflLinuxFlags(unixflags)
    IN \E hostarg \in SetflHostArg(linuxflags) :
       LET base == [fn |-> "fcntl", path |-> "setfl", cmd |-> cmd,
                    hostcmd |-> hostcmd, arg |-> arg, diag |-> "none",
                    linuxflags |-> linuxflags, hostarg |-> hostarg]
       IN
       \/ /\ call' = base @@ [ret |-> 0, hostfail |-> FALSE]
          /\ UNCHANGED <<errno, __unix_errno>>
       \/ \E e \in ErrCodes :
             /\ errno' = e
             /\ __unix_errno' = e
             /\ call' = base @@ [ret |-> -1, hostfail |-> TRUE, herr |-> e]

\* lines 244-251
TranslateLock(ufl) ==
    [l_type |-> unix_lck_table(ufl.l_type), l_start |-> ufl.l_start,
     l_len |-> ufl.l_len, l_whence |-> ufl.l_whence, l_pid |-> 0]

fcntl_setlk(cmd, hostcmd, ufl) ==
    LET base == [fn |-> "fcntl", path |-> "setlk", cmd |-> cmd,
                 hostcmd |-> hostcmd, diag |-> "none", lfl |-> TranslateLock(ufl)]
    IN
    \/ /\ call' = base @@ [ret |-> 0, hostfail |-> FALSE]
       /\ UNCHANGED <<errno, __unix_errno>>
    \/ \E e \in ErrCodes :
          /\ errno' = e
          /\ __unix_errno' = e
          /\ call' = base @@ [ret |-> -1, hostfail |-> TRUE, herr |-> e]

\* default: err(EXIT_FAILURE, "fcntl: unknown cmd %u requested.\n", cmd)
fcntl_default(cmd, hostcmd) ==
    /\ call' = [fn |-> "fcntl", path |-> "default", cmd |-> cmd,
                hostcmd |-> hostcmd, diag |-> "fatal", ret |-> -1,
                hostfail |-> FALSE]
    /\ Exit(host)
    /\ UNCHANGED <<errno, __unix_errno>>

__unix_fcntl ==
    /\ pc = "running"
    /\ \E cmd \in LegacyCmds : \E hostcmd \in TranslatedCmd(cmd) :
          \/ /\ hostcmd = F_GETFL
             /\ fcntl_getfl(cmd, hostcmd)
             /\ UNCHANGED <<host, pc>>
          \/ /\ hostcmd = F_SETFL
             /\ \E arg \in LegacySetFlags : fcntl_setfl(cmd, hostcmd, arg)
             /\ UNCHANGED <<host, pc>>
          \/ /\ hostcmd = F_SETLK
             /\ \E ufl \in LegacyLocks : fcntl_setlk(cmd, hostcmd, ufl)
             /\ UNCHANGED <<host, pc>>
          \/ /\ hostcmd \notin {F_GETFL, F_SETFL, F_SETLK}
             /\ fcntl_default(cmd, hostcmd)
    /\ UNCHANGED <<original, rawmode, restore>>

---------------------------------------------------------------------------
(* __unix_stat, __unix_fstat *)

UNIX_S_IFBLK == 24576
UNIX_S_IFREG == 32768
UNIX_S_IFLNK == 40960
UNIX_S_IFDIR == 16384
UNIX_S_IFCHR == 8192

S_IFMT == 61440
S_IFREG == 32768
S_IFDIR == 16384
S_IFLNK == 40960
S_IFBLK == 24576
S_IFCHR == 8192

\* x & S_IFMT
FileType(mode) == ((mode \div 4096) % 16) * 4096

\* the narrowing of an assignment to a uint16_t field; the uint32_t fields
\* are as wide as the host fields of the 32-bit build they are copied from
U16(x) == x % 65536

\* What the host reports: a regular file with a large inode number and size,
\* a set-uid directory, a link, both devices and a fifo.
HostStats ==
    {[st_dev |-> 2049, st_ino |-> 70001, st_nlink |-> 1, st_mode |-> m,
      st_uid |-> 1000, st_gid |-> 65537, st_rdev |-> 0,
      st_size |-> 70010, st_atim |-> 3, st_mtim |-> 2, st_ctim |-> 1] :
        m \in {S_IFREG + 420, S_IFDIR + 2048 + 493, S_IFLNK + 511,
               S_IFBLK + 432, S_IFCHR + 400, 4096 + 420}}

translate_st_mode(st_mode) ==
    (st_mode % 512) +
    (CASE FileType(st_mode) = S_IFREG -> UNIX_S_IFREG
       [] FileType(st_mode) = S_IFDIR -> UNIX_S_IFDIR
       [] FileType(st_mode) = S_IFLNK -> UNIX_S_IFLNK
       [] FileType(st_mode) = S_IFBLK -> UNIX_S_IFBLK
       [] FileType(st_mode) = S_IFCHR -> UNIX_S_IFCHR
       [] OTHER -> 0)

translate_linux_stat(linuxstat) ==
    [st_dev |-> U16(linuxstat.st_dev), st_ino |-> U16(linuxstat.st_ino),
     st_mode |-> translate_st_mode(linuxstat.st_mode),
     st_nlink |-> U16(linuxstat.st_nlink), st_uid |-> U16(linuxstat.st_uid),
     st_gid |-> U16(linuxstat.st_gid), st_rdev |-> U16(linuxstat.st_rdev),
     pad |-> 0, st_size |-> linuxstat.st_size,
     st_uatime |-> linuxstat.st_atim, st_umtime |-> linuxstat.st_mtim,
     st_uctime |-> linuxstat.st_ctim]

\* the warnx of translate_linux_stat
translate_diag(linuxstat) ==
    IF FileType(linuxstat.st_mode) \in {S_IFREG, S_IFDIR, S_IFLNK, S_IFBLK, S_IFCHR}
    THEN "none" ELSE "warn"

__unix_stat ==
    /\ pc = "running"
    /\ \/ \E e \in ErrCodes :
             /\ errno' = e
             /\ __unix_errno' = e
             /\ call' = [fn |-> "stat", ret |-> -1, hostfail |-> TRUE, herr |-> e,
                         diag |-> "none"]
       \/ \E buf \in HostStats :
             /\ __unix_errno' = 0
             /\ call' = [fn |-> "stat", ret |-> 0, hostfail |-> FALSE,
                         diag |-> translate_diag(buf),
                         statbuf |-> translate_linux_stat(buf)]
             /\ UNCHANGED errno
    /\ UNCHANGED <<host, original, rawmode, restore, pc>>

__unix_fstat ==
    /\ pc = "running"
    /\ \/ \E e \in ErrCodes :
             /\ errno' = e
             /\ __unix_errno' = e
             /\ call' = [fn |-> "fstat", ret |-> -1, hostfail |-> TRUE, herr |-> e,
                         diag |-> "none"]
       \/ \E buf \in HostStats :
             /\ call' = [fn |-> "fstat", ret |-> 0, hostfail |-> FALSE,
                         diag |-> translate_diag(buf),
                         statbuf |-> translate_linux_stat(buf)]
             /\ UNCHANGED <<errno, __unix_errno>>
    /\ UNCHANGED <<host, original, rawmode, restore, pc>>

---------------------------------------------------------------------------
(* __unix_open *)

\* The legacy flag values passed to open: the six of the switch and 0x777.
LegacyOpenFlags == {0, 1, 258, 257, 265, 770, 1911}

\* lines 349-358: the host flags of each case; -1 where the switch has none
OpenHostFlags(flags) ==
    CASE flags = 0 -> O_RDONLY
      [] flags = 1 -> O_WRONLY
      [] flags = 258 -> O_CREAT + O_RDWR
      [] flags = 257 -> O_CREAT + O_WRONLY
      [] flags = 265 -> O_CREAT + O_WRONLY + O_APPEND
      [] flags = 770 -> O_CREAT + O_TRUNC + O_RDWR
      [] OTHER -> -1

\* the cases that hand mode to the host
OpenPassesMode(flags) == flags \in {258, 257, 265, 770}

__unix_open ==
    /\ pc = "running"
    /\ \E flags \in LegacyOpenFlags :
          LET base == [fn |-> "open", flags |-> flags,
                       hostflags |-> OpenHostFlags(flags),
                       passesmode |-> OpenPassesMode(flags)]
          IN
          IF OpenHostFlags(flags) = -1
          THEN /\ call' = base @@ [ret |-> -1, hostfail |-> FALSE, diag |-> "fatal"]
               /\ Exit(host)
               /\ UNCHANGED <<errno, __unix_errno>>
          ELSE /\ \/ \E e \in ErrCodes :
                        /\ errno' = e
                        /\ call' = base @@ [ret |-> -1, hostfail |-> TRUE,
                                            herr |-> e, diag |-> "none"]
                  \/ /\ call' = base @@ [ret |-> 3, hostfail |-> FALSE,
                                         diag |-> "none"]
                     /\ UNCHANGED errno
               /\ UNCHANGED <<host, __unix_errno, pc>>
    /\ UNCHANGED <<original, rawmode, restore>>

---------------------------------------------------------------------------
(* __unix_uname, __unix_times, __unix_sysi86, __unix_access *)

\* strncpy(sysname, name.sysname, 48)
SysnameLen == 48

strncpy(src, n) == SubSeq(src, 1, IF Len(src) < n THEN Len(src) ELSE n)

__unix_uname ==
    /\ pc = "running"
    /\ \/ \E e \in ErrCodes :
             /\ errno' = e
             /\ call' = [fn |-> "uname", ret |-> -1, hostfail |-> TRUE, herr |-> e,
                         diag |-> "none"]
       \/ /\ call' = [fn |-> "uname", ret |-> 0, hostfail |-> FALSE,
                      diag |-> "none",
                      sysname |-> strncpy(<<"L", "i", "n", "u", "x">>, SysnameLen)]
          /\ UNCHANGED errno
    /\ UNCHANGED <<host, original, rawmode, restore, __unix_errno, pc>>

\* return times(&buf)
__unix_times ==
    /\ pc = "running"
    /\ \/ \E e \in ErrCodes :
             /\ errno' = e
             /\ call' = [fn |-> "times", ret |-> -1, hostfail |-> TRUE, herr |-> e,
                         diag |-> "none"]
       \/ /\ call' = [fn |-> "times", ret |-> 1000, hostfail |-> FALSE,
                      diag |-> "none"]
          /\ UNCHANGED errno
    /\ UNCHANGED <<host, original, rawmode, restore, __unix_errno, pc>>

SI86FPHW == 40
FP_387 == 3

__unix_sysi86 ==
    /\ pc = "running"
    /\ \E cmd \in {SI86FPHW, SI86FPHW + 1} :
          call' = IF cmd # SI86FPHW
                  THEN [fn |-> "sysi86", cmd |-> cmd, ret |-> -1,
                        hostfail |-> FALSE, diag |-> "none"]
                  ELSE [fn |-> "sysi86", cmd |-> cmd, ret |-> 0,
                        hostfail |-> FALSE, diag |-> "none", result |-> FP_387]
    /\ UNCHANGED <<host, original, rawmode, restore, errno, __unix_errno, pc>>

__unix_access ==
    /\ pc = "running"
    /\ \/ \E e \in ErrCodes :
             /\ errno' = e
             /\ __unix_errno' = e
             /\ call' = [fn |-> "access", ret |-> -1, hostfail |-> TRUE, herr |-> e,
                         diag |-> "none"]
       \/ /\ call' = [fn |-> "access", ret |-> 0, hostfail |-> FALSE,
                      diag |-> "none"]
          /\ UNCHANGED <<errno, __unix_errno>>
    /\ UNCHANGED <<host, original, rawmode, restore, pc>>

---------------------------------------------------------------------------
(* __unix_read *)

DEL == 127
BACKSPACE == 8

\* lines 397-404
KeyFixup(key) == IF key = DEL THEN BACKSPACE ELSE key

\* The bytes a host read delivers.
HostBytes == {DEL, 65}

ReadCounts == {1, 2}

__unix_read ==
    /\ pc = "running"
    /\ \E fd \in Fds, count \in ReadCounts :
          LET base == [fn |-> "read", fd |-> fd, count |-> count, diag |-> "none"]
          IN
          IF fd = STDIN_FILENO /\ count = 1 /\ isatty(fd)
          THEN \/ \E e \in ErrCodes :
                     /\ errno' = e
                     /\ __unix_errno' = e
                     /\ call' = base @@ [ret |-> -1, hostfail |-> TRUE, herr |-> e,
                                         buf |-> <<>>]
               \/ \* the read times out: nothing is read and nothing failed
                  /\ __unix_errno' = errno
                  /\ call' = base @@ [ret |-> 0, hostfail |-> FALSE, buf |-> <<>>]
                  /\ UNCHANGED errno
               \/ \E key \in HostBytes :
                     /\ call' = base @@ [ret |-> 1, hostfail |-> FALSE,
                                         key |-> key, buf |-> <<KeyFixup(key)>>]
                     /\ UNCHANGED <<errno, __unix_errno>>
          ELSE \/ \E e \in ErrCodes :
                     /\ errno' = e
                     /\ __unix_errno' = e
                     /\ call' = base @@ [ret |-> -1, hostfail |-> TRUE, herr |-> e,
                                         buf |-> <<>>]
               \/ \E n \in 0..count :
                     /\ __unix_errno' = errno
                     /\ call' = base @@ [ret |-> n, hostfail |-> FALSE,
                                         buf |-> [i \in 1..n |-> DEL]]
                     /\ UNCHANGED errno
    /\ UNCHANGED <<host, original, rawmode, restore, pc>>

---------------------------------------------------------------------------
(* __unix_readdir *)

\* char d_name[256]
DNameSize == 256

\* What the host's readdir returns: an entry with a large inode number.
HostDirents ==
    {[d_ino |-> 65536 + 5, d_off |-> 70024, d_reclen |-> 24,
      d_type |-> t, d_name |-> <<"a", "b">>] : t \in {4, 8}}

encode_dirent(lent) ==
    [d_ino |-> U16(lent.d_ino), d_off |-> lent.d_off,
     d_reclen |-> U16(lent.d_reclen), d_type |-> U16(lent.d_type),
     d_name |-> strncpy(lent.d_name, DNameSize)]

__unix_readdir ==
    /\ pc = "running"
    /\ \/ \E lent \in HostDirents :
             /\ errno' = 0
             /\ call' = [fn |-> "readdir", ret |-> "uent", hostfail |-> FALSE,
                         diag |-> "none", uent |-> encode_dirent(lent)]
             /\ UNCHANGED __unix_errno
       \/ \* the end of the stream
          /\ errno' = 0
          /\ __unix_errno' = 0
          /\ call' = [fn |-> "readdir", ret |-> "NULL", hostfail |-> FALSE,
                      diag |-> "none"]
       \/ \E e \in ErrCodes :
             /\ errno' = e
             /\ __unix_errno' = e
             /\ call' = [fn |-> "readdir", ret |-> "NULL", hostfail |-> TRUE,
                         herr |-> e, diag |-> "none"]
    /\ UNCHANGED <<host, original, rawmode, restore, pc>>

---------------------------------------------------------------------------
(* The specifications *)

\* the terminal calls of the legacy binary
NextTerm == __unix_ioctl

\* its file calls
NextFile ==
    \/ __unix_fcntl
    \/ __unix_stat
    \/ __unix_fstat
    \/ __unix_open
    \/ __unix_uname
    \/ __unix_times
    \/ __unix_read
    \/ __unix_sysi86
    \/ __unix_access
    \/ __unix_readdir

Next == NextTerm \/ NextFile

SpecTerm == Init /\ [][NextTerm]_vars

SpecFile == Init /\ [][NextFile]_vars

Spec == Init /\ [][Next]_vars

---------------------------------------------------------------------------
(* The properties *)

\* a struct termios without c_cc[VMIN] and c_cc[VTIME]
FlagsOf(t) ==
    [c_iflag |-> t.c_iflag, c_oflag |-> t.c_oflag,
     c_cflag |-> t.c_cflag, c_lflag |-> t.c_lflag]

\* the flags of terminal t as the process found it, and raw-transformed
CookedFlags(t) == FlagsOf(InitHost[t])
RawFlags(t) ==
    [c_iflag |-> {"BRKINT", "IGNBRK"}, c_oflag |-> {"ONLCR"},
     c_cflag |-> {"CS6", "CS7", "CREAD"}, c_lflag |-> {"ISIG"}]

\* the last call was a set-attributes call that returned 0
IsSetOk(c) == c.fn = "ioctl" /\ c.path = "set" /\ c.ret = 0
\* ... that took the branch of lines 117-133, a raw request
RawRequest(c) == IsSetOk(c) /\ ~c.wants
\* ... that took the branch of lines 108-116, a cooked request
CookedRequest(c) == IsSetOk(c) /\ c.wants

HasTABDLY(argp) == UNIX_TABDLY \subseteq argp.c_oflag
HasICRNL(argp) == UNIX_ICRNL \subseteq argp.c_iflag

\* C1: whenever a call of __unix_ioctl has returned, rawmode is true exactly
\* when the terminal the call addressed is raw-transformed and false exactly
\* when it is as the process found it, and a call that returned -1 changed
\* neither the terminals nor the flag.
C1_FlagAgreesWithTerminal ==
    (pc = "running" /\ call.fn = "ioctl") =>
        /\ call.path \in {"set", "get"} =>
              LET t == TtyOf(call.fd) IN
              /\ rawmode <=> FlagsOf(host[t]) = RawFlags(t)
              /\ ~rawmode <=> FlagsOf(host[t]) = CookedFlags(t)
        /\ call.ret = -1 => host = call.prehost /\ rawmode = call.preraw

\* C2: a raw request made in the Cooked state and then a cooked request on
\* the same terminal leave the terminal as it was before the raw request in
\* every field but c_cc[VMIN] and c_cc[VTIME], which are those of the cooked
\* request.
C2_RoundTrip ==
    [][(/\ RawRequest(call) /\ ~call.preraw
        /\ CookedRequest(call') /\ call'.fd = call.fd)
       => LET h == host'[TtyOf(call.fd)] IN
          /\ FlagsOf(h) = FlagsOf(call.pre)
          /\ h.VMIN = call'.arg.UNIX_VMIN
          /\ h.VTIME = call'.arg.UNIX_VTIME]_vars

\* the terminal was raw-transformed, a cooked request with a timeout has
\* returned and the terminal is as the process found it
C2_Witness ==
    /\ pc = "running"
    /\ CookedRequest(call) /\ call.preraw
    /\ FlagsOf(call.pre) = RawFlags(TtyOf(call.fd))
    /\ FlagsOf(host[TtyOf(call.fd)]) = CookedFlags(TtyOf(call.fd))
    /\ host[TtyOf(call.fd)].VTIME = 1

\* C3: a raw request that follows a raw request on the same terminal with the
\* same VMIN and VTIME changes neither the terminals nor the snapshot; the
\* snapshot is written only by a request that takes rawmode from false to
\* true; and a cooked request that follows installs the flags of the snapshot.
C3_Idempotent ==
    [][/\ (/\ RawRequest(call) /\ RawRequest(call') /\ call'.fd = call.fd
           /\ call'.arg.UNIX_VMIN = call.arg.UNIX_VMIN
           /\ call'.arg.UNIX_VTIME = call.arg.UNIX_VTIME)
          => host' = host /\ restore' = restore
       /\ restore' # restore => ~rawmode /\ rawmode'
       /\ (/\ RawRequest(call) /\ call.preraw
           /\ CookedRequest(call') /\ call'.fd = call.fd)
          => FlagsOf(host'[TtyOf(call.fd)]) = FlagsOf(restore)]_vars

\* a raw request has returned that found rawmode true: the terminal it
\* addressed is raw as before and the snapshot is the terminal as found
C3_Witness ==
    /\ pc = "running"
    /\ RawRequest(call) /\ call.preraw
    /\ FlagsOf(call.pre) = RawFlags(TtyOf(call.fd))
    /\ call.pre.VMIN = call.arg.UNIX_VMIN /\ call.pre.VTIME = call.arg.UNIX_VTIME
    /\ host[TtyOf(call.fd)] = call.pre
    /\ FlagsOf(restore) = CookedFlags(TtyOf(call.fd))

\* C4: termios_wants_rawmode returns false when both UNIX_TABDLY and
\* UNIX_ICRNL are set in the request and true when UNIX_TABDLY is not.
C4_WantsRawmode ==
    IsSetOk(call) =>
        /\ (HasTABDLY(call.arg) /\ HasICRNL(call.arg)) => call.wants = FALSE
        /\ ~HasTABDLY(call.arg) => call.wants = TRUE

\* C5: a set-attributes call whose request has UNIX_TABDLY or UNIX_ICRNL set
\* leaves rawmode false and the terminal not raw-transformed; rawmode is true
\* after the call only when both are clear.
C5_EitherBitMeansCooked ==
    IsSetOk(call) =>
        /\ (HasTABDLY(call.arg) \/ HasICRNL(call.arg)) =>
              /\ rawmode = FALSE
              /\ FlagsOf(host[TtyOf(call.fd)]) # RawFlags(TtyOf(call.fd))
        /\ rawmode => ~HasTABDLY(call.arg) /\ ~HasICRNL(call.arg)

\* C6: a TCGETS that returns 0 hands back UNIX_TABDLY in c_oflag, UNIX_ICRNL
\* in c_iflag, the VMIN and VTIME of the terminal and nothing else, and
\* changes neither rawmode, the snapshot nor the terminals.
C6_GetReportsLive ==
    (call.fn = "ioctl" /\ call.path = "get" /\ call.ret = 0) =>
        /\ call.out = [c_iflag |-> {"UNIX_ICRNL"}, c_oflag |-> {"UNIX_TABDLY"},
                       UNIX_VMIN |-> host[TtyOf(call.fd)].VMIN,
                       UNIX_VTIME |-> host[TtyOf(call.fd)].VTIME]
        /\ host = call.prehost
        /\ rawmode = call.preraw
        /\ restore = call.prerestore

\* a TCGETS has returned in the RawVirtualized state, with a timeout that no
\* terminal started with
C6_Witness ==
    /\ call.fn = "ioctl" /\ call.path = "get" /\ call.ret = 0
    /\ rawmode
    /\ FlagsOf(host[TtyOf(call.fd)]) = RawFlags(TtyOf(call.fd))
    /\ call.out.UNIX_VTIME = 1 /\ call.out.UNIX_VMIN = 0

\* what a call with one of the other requests left alone
OtherLeftAlone ==
    /\ host = call.prehost
    /\ rawmode = call.preraw
    /\ restore = call.prerestore

\* C7, as claimed: 0x7602, 0x7603 and 0x4B01 are taken as success without a
\* diagnostic and leave the error channel, rawmode and the terminals alone;
\* any other unknown request gives a warning, -1 and the error channel written.
C7_QuietIsSuccess ==
    (call.fn = "ioctl" /\ call.path = "other") =>
        IF call.request \in {30210, 30211, 19201}
        THEN /\ call.ret = 0 /\ call.diag = "none"
             /\ __unix_errno = call.preerrno
             /\ OtherLeftAlone
        ELSE /\ call.ret = -1 /\ call.diag = "warn"
             /\ __unix_errno = errno

\* C7, amended: 0x7602, 0x7603 and 0x4B01 give no diagnostic, every other
\* unknown request a warning; all of them return -1 with the host errno
\* copied to the error channel, and leave rawmode, the snapshot and the
\* terminals alone.
C7_QuietFailsToo ==
    (call.fn = "ioctl" /\ call.path = "other") =>
        /\ call.ret = -1
        /\ __unix_errno = errno
        /\ call.diag = (IF call.request \in {30210, 30211, 19201}
                        THEN "none" ELSE "warn")
        /\ OtherLeftAlone

\* 0x4B01 has returned in the RawVirtualized state and has overwritten the
\* error channel
C7_Witness ==
    /\ call.fn = "ioctl" /\ call.path = "other" /\ call.request = 19201
    /\ rawmode
    /\ __unix_errno # call.preerrno

\* C8: when the host call under stat, fstat, open, read, access, readdir,
\* fcntl (get-flags, set-flags, set-lock) or uname fails, the wrapper returns
\* its failure value and the error channel holds the host's error code.
C8_FailureSetsErrno ==
    (/\ call.fn \in {"stat", "fstat", "open", "read", "access", "readdir",
                     "fcntl", "uname"}
     /\ call.hostfail) =>
        /\ call.ret = (IF call.fn = "readdir" THEN "NULL" ELSE -1)
        /\ __unix_errno = call.herr

\* C9: the flag word handed to the host by the set-flags command has
\* O_NONBLOCK exactly when bit 4 of the caller's flags is set, O_APPEND
\* exactly when bit 8 is, and nothing else.
C9_SetflTranslatesArg ==
    (call.fn = "fcntl" /\ call.path = "setfl") =>
        call.hostarg = (IF HasBit(call.arg, 4) THEN O_NONBLOCK ELSE 0)
                     + (IF HasBit(call.arg, 8) THEN O_APPEND ELSE 0)

\* C10: __unix_fcntl ends the process exactly when the legacy command is
\* none of 3, 4, 5, 6, 7.
C10_AbortsOnlyOnUnknown ==
    call.fn = "fcntl" => (pc = "exited" <=> call.cmd \notin {3, 4, 5, 6, 7})

====
